---------------------------- MODULE Spec2Model ----------------------------
(***************************************************************************)
(* Customer-management backend (src/backend): the relational store of      *)
(* models.py, the request handlers of main.py, the per-request session of  *)
(* database.py and the template generator of ai_service.py.                *)
(*                                                                         *)
(* Text is a sequence of one-character strings, so that strip(), the       *)
(* prefix test and the LIKE pattern are computed character by character.   *)
(* A fixed piece of a template is one multi-character token.  Python None  *)
(* and SQL NULL are the one-token sequence None.                           *)
(*                                                                         *)
(* A request is one of the slots of Req.  A handler runs statement by      *)
(* statement: every SELECT and every commit is one step, and steps of the  *)
(* two slots interleave (several server workers on one database, each      *)
(* statement seeing the rows committed so far).  NextSeq is the same       *)
(* handlers with one request in flight at a time.                          *)
(*                                                                         *)
(* Every modelled request has passed get_current_user: the auth module is  *)
(* not among the sources and no handler reads current_user except for the  *)
(* created_by columns, which no handler reads back.  The columns logo_url, *)
(* created_at, updated_at, created_by, role, phone, model,                 *)
(* prompt_template_version and created_by_ai are written once and read by  *)
(* no handler logic; they are left out of the rows.  Handler results are   *)
(* the values the handler functions return or the exception they raise.    *)
(***************************************************************************)
EXTENDS Integers, Sequences, FiniteSets, TLC

----------------------------------------------------------------------------
(* Bounds *)

\* identifiers handed out by uuid4 are 1..MaxId; inserts stop after that
MaxId == 11

\* request slots that may be in flight together
Req == {1, 2}

----------------------------------------------------------------------------
(* Text helpers *)

None == <<"None">>

\* Python truthiness of an Optional[str]
Truthy(s) == s # None /\ s # <<>>

Whitespace == {" ", "\t", "\n"}

RECURSIVE LStrip(_)
LStrip(s) == IF s # <<>> /\ Head(s) \in Whitespace THEN LStrip(Tail(s)) ELSE s

RECURSIVE RStrip(_)
RStrip(s) ==
    IF s # <<>> /\ s[Len(s)] \in Whitespace THEN RStrip(SubSeq(s, 1, Len(s) - 1)) ELSE s

\* str.strip()
Strip(s) == RStrip(LStrip(s))

\* str.startswith(prefix)
StartsWith(s, prefix) ==
    Len(s) >= Len(prefix) /\ SubSeq(s, 1, Len(prefix)) = prefix

Digits == <<"0", "1", "2", "3", "4", "5", "6", "7", "8", "9">>

Digit(k) == Digits[k + 1]

\* a number of at most four digits, zero-padded to width w
Pad(n, w) ==
    LET all == << Digit((n \div 1000) % 10), Digit((n \div 100) % 10),
                  Digit((n \div 10) % 10), Digit(n % 10) >>
    IN  SubSeq(all, 5 - w, 4)

\* date.strftime('%Y-%m-%d') for a four-digit year
Strftime(d) == Pad(d.y, 4) \o <<"-">> \o Pad(d.m, 2) \o <<"-">> \o Pad(d.d, 2)

\* the en dash of the title and of the email subject
EnDash == "[U+2013]"

DefaultHint == <<"M", "e", "e", "t", "i", "n", "g">>

title_hint_as_stored(m) ==
    LET date_str == Strftime(m.meeting_date)
        hint == IF Truthy(m._title_hint) THEN m._title_hint ELSE DefaultHint
    IN  date_str \o <<" ", EnDash, " ">> \o hint

\* Meeting.title
title(m) ==
    LET date_str == Strftime(m.meeting_date)
        hint == IF Truthy(m._title_hint) /\ Truthy(Strip(m._title_hint))
                THEN Strip(m._title_hint) ELSE DefaultHint
    IN  date_str \o <<" ", EnDash, " ">> \o hint

----------------------------------------------------------------------------
(* ai_service.py *)

HePlaceholder == <<"[he]no notes available">>

EnPlaceholder == <<"No notes available">>

\* the fixed pieces of the two f-strings, each one token, the Hebrew text
\* written as [he]<its English sense>
HeHeading == "# [he]meeting summary - "

HeKeyDecisions == "\n\n## [he]agenda\n- [he]discussion\n- [he]decisions\n\n## [he]key decisions\n"

HeRest == "\n\n## [he]action items\n- [ ] [he]follow up\n- [ ] [he]next meeting\n\n## [he]next steps\n- [he]coordination\n- [he]report\n\n## [he]ARR impact\n[he]not specified"

EnHeading == "# Meeting Summary - "

EnKeyDecisions == "\n\n## Agenda\n- Discussion of key topics\n- Decisions made\n\n## Key Decisions\n"

EnRest == "\n\n## Action Items\n- [ ] Follow up on decisions\n- [ ] Schedule next meeting\n\n## Next Steps\n- Continue coordination\n- Report to team\n\n## ARR Impact\nNot specified"

\* the Hebrew template of generate_meeting_summary; each fixed piece of the
\* f-string is one token, the Hebrew text written as [he]<its English sense>
HeSummary(meeting) ==
    <<"\n", HeHeading>> \o title(meeting)
    \o <<HeKeyDecisions>>
    \o (IF Truthy(meeting.raw_notes) THEN meeting.raw_notes ELSE HePlaceholder)
    \o <<HeRest>>
    \o <<"\n">>

\* the English template of generate_meeting_summary
EnSummary(meeting) ==
    <<"\n", EnHeading>> \o title(meeting)
    \o <<EnKeyDecisions>>
    \o (IF Truthy(meeting.raw_notes) THEN meeting.raw_notes ELSE EnPlaceholder)
    \o <<EnRest>>
    \o <<"\n">>

generate_meeting_summary_en_only(meeting, language) == Strip(EnSummary(meeting))

generate_meeting_summary(meeting, language) ==
    IF language = "he" THEN Strip(HeSummary(meeting)) ELSE Strip(EnSummary(meeting))

DefaultCustomerName == <<"C", "u", "s", "t", "o", "m", "e", "r">>

\* generate_email_draft; customer is what meeting.customer loads: the set of
\* the one row with the meeting's customer_id, or the empty set (None)
generate_email_draft(meeting, language, customer) ==
    LET customer_name == IF customer # {} THEN (CHOOSE c \in customer : TRUE).name
                         ELSE DefaultCustomerName
        meeting_date == Strftime(meeting.meeting_date)
    IN  IF language = "he"
        THEN [subject |-> customer_name \o <<" ", EnDash, " ">> \o meeting_date
                          \o <<" ", EnDash, " ", "[he]meeting summary and next steps">>,
              body |-> Strip(
                  <<"\n", "<div dir=\"rtl\">\n<p>[he]hello,</p>\n\n<p>[he]summary of our meeting today (">>
                  \o meeting_date \o <<") [he]with ">> \o customer_name
                  \o <<".</p>\n\n<h3>[he]key topics:</h3>\n<ul>\n<li>">>
                  \o (IF Truthy(meeting.raw_notes) THEN meeting.raw_notes
                      ELSE <<"[he]no details provided">>)
                  \o <<"</li>\n</ul>\n\n<h3>[he]action items:</h3>\n<ul>\n<li>[he]follow up</li>\n<li>[he]next meeting</li>\n</ul>\n\n<p>[he]questions welcome.</p>\n\n<p>[he]thanks,<br>\n[[he]your name]</p>\n</div>">>
                  \o <<"\n">>)]
        ELSE [subject |-> customer_name \o <<" ", EnDash, " ">> \o meeting_date
                          \o <<" ", EnDash, " ", "Meeting Summary & Next Steps">>,
              body |-> Strip(
                  <<"\n", "<p>Hello,</p>\n\n<p>I'm sending a summary of our meeting today (">>
                  \o meeting_date \o <<") with ">> \o customer_name
                  \o <<".</p>\n\n<h3>Key Topics Discussed:</h3>\n<ul>\n<li>">>
                  \o (IF Truthy(meeting.raw_notes) THEN meeting.raw_notes
                      ELSE <<"No details provided">>)
                  \o <<"</li>\n</ul>\n\n<h3>Action Items:</h3>\n<ul>\n<li>Follow up on decisions made</li>\n<li>Schedule next meeting</li>\n</ul>\n\n<p>Please let me know if you have any questions or feedback.</p>\n\n<p>Best regards,<br>\n[Your Name]</p>">>
                  \o <<"\n">>)]

----------------------------------------------------------------------------
(* Column types and SQL operators of models.py and main.py *)

\* lower-casing of the letters the model uses
Lower(c) ==
    CASE c = "A" -> "a" [] c = "B" -> "b" [] c = "C" -> "c" [] OTHER -> c

\* SQL LIKE with the default escape character, compared case-insensitively
\* (ILIKE): % is any run of characters, _ any one character
RECURSIVE LikeMatch(_, _)
LikeMatch(p, s) ==
    IF p = <<>> THEN s = <<>>
    ELSE IF Head(p) = "%"
         THEN LikeMatch(Tail(p), s) \/ (s # <<>> /\ LikeMatch(p, Tail(s)))
    ELSE IF s = <<>> THEN FALSE
    ELSE IF Head(p) = "_" THEN LikeMatch(Tail(p), Tail(s))
    ELSE IF Head(p) = "\\"
         THEN /\ Len(p) >= 2
              /\ Lower(p[2]) = Lower(Head(s))
              /\ LikeMatch(Tail(Tail(p)), Tail(s))
    ELSE Lower(Head(p)) = Lower(Head(s)) /\ LikeMatch(Tail(p), Tail(s))

\* Customer.name.ilike(f"%{search}%")
ilike(name, search) == LikeMatch(<<"%">> \o search \o <<"%">>, name)

\* Column(Numeric(14, 2)): an amount in thousandths is stored rounded to
\* hundredths, half away from zero (amounts here stay below the 10^12 limit)
NumericTruncate(a) == (a \div 10) * 10
Numeric_14_2(a) == IF a >= 0 THEN ((a + 5) \div 10) * 10 ELSE 0 - ((((0 - a) + 5) \div 10) * 10)

\* every order a query without ORDER BY may return the rows of S in
Orderings(S) ==
    { s \in [1..Cardinality(S) -> S] : \A i, j \in DOMAIN s : i # j => s[i] # s[j] }

\* query.offset(offset).limit(limit) over the rows in order ord
Window(ord, offset, limit) ==
    SubSeq(ord, offset + 1, IF offset + limit < Len(ord) THEN offset + limit ELSE Len(ord))

----------------------------------------------------------------------------
(* Request inputs *)

\* CustomerCreate bodies; arr_usd in thousandths: 12.345 and 12.30
CustomerBodies ==
    { [name |-> <<"B", "c">>, arr_usd |-> 12345, notes |-> None],
      [name |-> <<"B", "c">>, arr_usd |-> 12300, notes |-> <<"n">>] }

\* CustomerUpdate bodies: the fields the client sent and their values
Updates ==
    { [fields_set |-> {}, name |-> None, arr_usd |-> 0, notes |-> None],
      [fields_set |-> {"name"}, name |-> None, arr_usd |-> 0, notes |-> None],
      [fields_set |-> {"name", "arr_usd"}, name |-> <<"c">>, arr_usd |-> 12345,
       notes |-> None] }

Emails == { None, <<"a", "@", "x">> }

Dates == { [y |-> 2024, m |-> 1, d |-> 15], [y |-> 2025, m |-> 12, d |-> 5] }

Kickoff == <<"K", "i", "c", "k", "o", "f", "f">>

Hints == { None, <<>>, <<" ", "\t">>, Kickoff, <<" ", "K", " ", "i", "\n">> }

MeetingNotes == { None, <<>>, <<"x", " ">>, <<" ">> }

ImagePng == <<"i", "m", "a", "g", "e", "/", "p", "n", "g">>

ApplicationPdf ==
    <<"a", "p", "p", "l", "i", "c", "a", "t", "i", "o", "n", "/", "p", "d", "f">>

\* UploadFile.content_type: the part's Content-Type header, None without one
ContentTypes == { ImagePng, ApplicationPdf, None }

Languages == { "en", "he", "fr" }

\* the search parameter: absent, empty, or a term
SearchTerms == { None, <<>>, <<"B">>, <<"_">> }

Offsets == { 0, 1 }

Limits == { 1, 2 }

----------------------------------------------------------------------------
(* State *)

VARIABLES
    customers,   \* table customer: rows [id, name, arr_usd, notes]
    contacts,    \* table contact: rows [id, customer_id, email]
    meetings,    \* table meeting: rows [id, customer_id, meeting_date, _title_hint, raw_notes]
    assets,      \* table meeting_asset: rows [id, meeting_id, kind]
    summaries,   \* table meeting_summary: rows [id, meeting_id, version, language, summary_md]
    drafts,      \* table email_draft: rows [id, meeting_id, version, subject, body_html,
                 \*                          to_emails, cc_emails, language]
    files,       \* meeting ids with a file written under data/assets/{meeting_id}/
    nextId,      \* the next identifier uuid4 hands out
    req,         \* per slot: the request in flight, its position, locals and result
    session,     \* per slot: the SessionLocal() of the request and its close() calls
    origin       \* history: per customer created by POST /customers and not updated
                 \* since, the name, amount and notes the client sent

store == <<customers, contacts, meetings, assets, summaries, drafts>>

vars == <<customers, contacts, meetings, assets, summaries, drafts, files, nextId,
          req, session, origin>>

NoResp == [status |-> 0, body |-> <<>>]

Idle == [op |-> "none", pc |-> "idle", id |-> 0, arg |-> <<>>, local |-> <<>>,
         resp |-> NoResp]

NoSession == [state |-> "none", closes |-> 0]

MaxOf(S) == CHOOSE n \in S : \A k \in S : k <= n

\* rows of the database the server starts on.  POST /customers/{id}/meetings
\* cannot insert a meeting (see create_meeting), so the meetings the other
\* routes work on are rows already in the store.
Customer1 == [id |-> 1, name |-> <<"A", "b">>, arr_usd |-> 0, notes |-> None]

Customer2 == [id |-> 2, name |-> <<"c">>, arr_usd |-> 12300, notes |-> <<"n">>]

MeetingRow(id, customer_id, date, hint, notes) ==
    [id |-> id, customer_id |-> customer_id, meeting_date |-> date,
     _title_hint |-> hint, raw_notes |-> notes]

Meeting3 == MeetingRow(3, 1, [y |-> 2024, m |-> 1, d |-> 15], <<"K", "i">>, <<"x", " ">>)

Meeting4 == MeetingRow(4, 2, [y |-> 2025, m |-> 12, d |-> 5], None, None)

\* the store holds the given rows, no request is in flight, and uuid4 hands
\* out the identifiers from first on (those below are taken)
InitWith(cs, ks, ms, as, ss, ds, first) ==
    /\ customers = cs
    /\ contacts = ks
    /\ meetings = ms
    /\ assets = as
    /\ summaries = ss
    /\ drafts = ds
    /\ files = {}
    /\ nextId = first
    /\ req = [r \in Req |-> Idle]
    /\ session = [r \in Req |-> NoSession]
    /\ origin = {}

----------------------------------------------------------------------------
(* Queries and constraints *)

\* db.query(T).filter(T.id == id).first(): the set of the row, or {} (None)
ById(table, id) == { row \in table : row.id = id }

TheRow(rows) == CHOOSE row \in rows : TRUE

\* ForeignKey("customer.id") / ForeignKey("meeting.id"): the parent row exists
ForeignKeyOk(parents, id) == ById(parents, id) # {}

\* CheckConstraint("customer_id IS NOT NULL AND email IS NOT NULL")
unique_customer_email(row) == row.email # None

\* CheckConstraint("kind IN ('image', 'file')")
valid_asset_kind(row) == row.kind \in {"image", "file"}

\* CheckConstraint("meeting_id IS NOT NULL AND version IS NOT NULL"): holds of
\* every row the handlers build; it compares no row with another
unique_meeting_version_enforced(table, row) ==
    \A other \in table : ~(other.meeting_id = row.meeting_id /\ other.version = row.version)
unique_meeting_version(table, row) == TRUE

\* .order_by(T.version.desc()).first(), then (latest.version + 1) if latest else 1
NextVersionOne(table, meeting_id) == 1
NextVersion(table, meeting_id) ==
    LET versions == { row.version : row \in { x \in table : x.meeting_id = meeting_id } }
    IN  IF versions = {} THEN 1 ELSE MaxOf(versions) + 1

\* ON DELETE CASCADE and cascade="all, delete-orphan": the rows that go with
\* customer customer_id
MeetingsOf(customer_id) == { m \in meetings : m.customer_id = customer_id }

MeetingIdsOf(customer_id) == { m.id : m \in MeetingsOf(customer_id) }

\* MeetingResponse over the ORM object: title is the property, the nested
\* lists are the relationships, and title_hint (no attribute of Meeting) is
\* the schema default
MeetingResponse(m) ==
    [id |-> m.id, customer_id |-> m.customer_id, meeting_date |-> m.meeting_date,
     title_hint |-> None, raw_notes |-> m.raw_notes, title |-> title(m),
     assets |-> { a \in assets : a.meeting_id = m.id },
     summaries |-> { x \in summaries : x.meeting_id = m.id },
     email_drafts |-> { x \in drafts : x.meeting_id = m.id }]

Ok(body) == [status |-> 200, body |-> body]

\* raise HTTPException(status_code=404, detail=...)
NotFound(detail) == [status |-> 404, body |-> detail]

\* an exception no handler catches
ServerError(exc) == [status |-> 500, body |-> exc]

Goto(r, pc, local) == req' = [req EXCEPT ![r].pc = pc, ![r].local = local]

Return(r, resp) == req' = [req EXCEPT ![r].pc = "exit", ![r].resp = resp]

At(r, op, pc) == req[r].op = op /\ req[r].pc = pc

----------------------------------------------------------------------------
(* database.py *)

\* the routes that insert a row with a fresh identifier
InsertOps == { "create_customer", "create_contact", "upload_meeting_asset",
               "create_ai_summary", "create_email_draft" }

IdsLeft ==
    nextId + Cardinality({ s \in Req : req[s].op \in InsertOps /\ req[s].pc # "exit" })
        <= MaxId

\* get_db up to its yield: db = SessionLocal(), then the handler runs.
\* logout declares no Depends(get_db).
Begin(r, op, id, arg) ==
    /\ req[r].pc = "idle"
    /\ op \in InsertOps => IdsLeft
    /\ req' = [req EXCEPT ![r] = [op |-> op, pc |-> "run", id |-> id, arg |-> arg,
                                  local |-> <<>>, resp |-> NoResp]]
    /\ session' = [session EXCEPT ![r] =
                      IF op = "logout" THEN NoSession
                      ELSE [state |-> "open", closes |-> 0]]
    /\ UNCHANGED <<store, files, nextId, origin>>

\* the identifiers a client may send: those of the rows there are, and 0 for
\* one no row has
CustomerIds == {0} \cup { c.id : c \in customers }

MeetingIds == {0} \cup { m.id : m \in meetings }

\* a request arrives: the route, its path identifier and its parameters,
\* drawn from the given sets
request_auth(r) ==
    \E op \in {"login", "logout", "get_current_user_info"} : Begin(r, op, 0, <<>>)

request_get_customers(r, searches, limits, offsets) ==
    \E search \in searches, limit \in limits, offset \in offsets :
        Begin(r, "get_customers", 0,
              [search |-> search, limit |-> limit, offset |-> offset])

request_create_customer(r, bodies) ==
    \E customer \in bodies : Begin(r, "create_customer", 0, customer)

request_get_customer(r, ids) == \E id \in ids : Begin(r, "get_customer", id, <<>>)

request_update_customer(r, ids, updates) ==
    \E id \in ids, customer_update \in updates :
        Begin(r, "update_customer", id, customer_update)

request_delete_customer(r, ids) == \E id \in ids : Begin(r, "delete_customer", id, <<>>)

request_create_contact(r, ids, emails) ==
    \E id \in ids, email \in emails :
        Begin(r, "create_contact", id, [email |-> email])

request_get_customer_meetings(r, ids) ==
    \E id \in ids : Begin(r, "get_customer_meetings", id, <<>>)

request_create_meeting(r, ids, dates, hints, notes) ==
    \E id \in ids, date \in dates, hint \in hints, raw_notes \in notes :
        Begin(r, "create_meeting", id,
              [meeting_date |-> date, title_hint |-> hint, raw_notes |-> raw_notes])

request_get_meeting(r, ids) == \E id \in ids : Begin(r, "get_meeting", id, <<>>)

request_upload_meeting_asset(r, ids, content_types) ==
    \E id \in ids, content_type \in content_types :
        Begin(r, "upload_meeting_asset", id, [content_type |-> content_type])

request_create_ai_summary(r, ids, languages) ==
    \E id \in ids, language \in languages :
        Begin(r, "create_ai_summary", id, [language |-> language])

request_create_email_draft(r, ids, languages) ==
    \E id \in ids, language \in languages :
        Begin(r, "create_email_draft", id, [language |-> language])

\* get_db after its yield: finally db.close(), whether the handler returned
\* or raised
FinishLeak(r) ==
    /\ req[r].pc = "exit"
    /\ req' = [req EXCEPT ![r] = Idle]
    /\ session' = [session EXCEPT ![r] =
                      IF @.state = "open" /\ req[r].resp.status = 200
                      THEN [state |-> "closed", closes |-> @.closes + 1]
                      ELSE @]
    /\ UNCHANGED <<store, files, nextId, origin>>
Finish(r) ==
    /\ req[r].pc = "exit"
    /\ req' = [req EXCEPT ![r] = Idle]
    /\ session' = [session EXCEPT ![r] =
                      IF @.state = "open"
                      THEN [state |-> "closed", closes |-> @.closes + 1]
                      ELSE @]
    /\ UNCHANGED <<store, files, nextId, origin>>

----------------------------------------------------------------------------
(* main.py: auth and customer routes *)

\* login: the body is pass
login(r) ==
    /\ At(r, "login", "run")
    /\ Return(r, Ok(None))
    /\ UNCHANGED <<store, files, nextId, session, origin>>

logout(r) ==
    /\ At(r, "logout", "run")
    /\ Return(r, Ok(<<"Logged out successfully">>))
    /\ UNCHANGED <<store, files, nextId, session, origin>>

get_current_user_info(r) ==
    /\ At(r, "get_current_user_info", "run")
    /\ Return(r, Ok(<<"current_user">>))
    /\ UNCHANGED <<store, files, nextId, session, origin>>

\* the rows get_customers selects before offset and limit
SearchFilter(search) ==
    IF Truthy(search) THEN { c \in customers : ilike(c.name, search) } ELSE customers

get_customers(r) ==
    /\ At(r, "get_customers", "run")
    /\ \E ord \in Orderings(SearchFilter(req[r].arg.search)) :
          Return(r, Ok(Window(ord, req[r].arg.offset, req[r].arg.limit)))
    /\ UNCHANGED <<store, files, nextId, session, origin>>

\* Customer(**customer.dict(), created_by=...), add, commit, refresh
create_customer(r) ==
    /\ At(r, "create_customer", "run")
    /\ LET db_customer == [id |-> nextId, name |-> req[r].arg.name,
                           arr_usd |-> Numeric_14_2(req[r].arg.arr_usd),
                           notes |-> req[r].arg.notes]
       IN  /\ customers' = customers \cup {db_customer}
           /\ origin' = origin \cup { [id |-> nextId, name |-> req[r].arg.name,
                                       arr_usd |-> req[r].arg.arr_usd,
                                       notes |-> req[r].arg.notes] }
           /\ Return(r, Ok(db_customer))
    /\ nextId' = nextId + 1
    /\ UNCHANGED <<contacts, meetings, assets, summaries, drafts, files, session>>

get_customer(r) ==
    /\ At(r, "get_customer", "run")
    /\ LET customer == ById(customers, req[r].id)
       IN  IF customer = {} THEN Return(r, NotFound(<<"Customer not found">>))
           ELSE Return(r, Ok(TheRow(customer)))
    /\ UNCHANGED <<store, files, nextId, session, origin>>

\* update_customer up to the 404 test: the SELECT
update_customer_lookup(r) ==
    /\ At(r, "update_customer", "run")
    /\ LET customer == ById(customers, req[r].id)
       IN  IF customer = {} THEN Return(r, NotFound(<<"Customer not found">>))
           ELSE Goto(r, "commit", TheRow(customer))
    /\ UNCHANGED <<store, files, nextId, session, origin>>

\* setattr for every field sent
Setattr(customer, upd) ==
    [customer EXCEPT
        !.name = IF "name" \in upd.fields_set THEN upd.name ELSE @,
        !.arr_usd = IF "arr_usd" \in upd.fields_set THEN Numeric_14_2(upd.arr_usd) ELSE @,
        !.notes = IF "notes" \in upd.fields_set THEN upd.notes ELSE @]

\* update_customer from the setattr loop on: the flush writes the attributes
\* whose value changed on the loaded object, in an UPDATE ... WHERE id = ...
\* that must match one row (StaleDataError) and keep name non-null
\* (IntegrityError); with nothing changed there is no UPDATE, and refresh
\* needs the row (InvalidRequestError)
update_customer_commit(r) ==
    /\ At(r, "update_customer", "commit")
    /\ LET loaded == req[r].local
           edited == Setattr(loaded, req[r].arg)
           current == ById(customers, req[r].id)
           written == [f \in {"name", "arr_usd", "notes"} |-> edited[f] # loaded[f]]
           row == [id |-> loaded.id,
                   name |-> IF written["name"] THEN edited.name ELSE TheRow(current).name,
                   arr_usd |-> IF written["arr_usd"] THEN edited.arr_usd
                               ELSE TheRow(current).arr_usd,
                   notes |-> IF written["notes"] THEN edited.notes
                             ELSE TheRow(current).notes]
       IN  IF edited = loaded
           THEN /\ IF current = {} THEN Return(r, ServerError(<<"InvalidRequestError">>))
                   ELSE Return(r, Ok(TheRow(current)))
                /\ UNCHANGED <<customers, origin>>
           ELSE IF current = {}
           THEN /\ Return(r, ServerError(<<"StaleDataError">>))
                /\ UNCHANGED <<customers, origin>>
           ELSE IF edited.name = None
           THEN /\ Return(r, ServerError(<<"IntegrityError">>))
                /\ UNCHANGED <<customers, origin>>
           ELSE /\ customers' = (customers \ current) \cup {row}
                /\ origin' = { o \in origin : o.id # loaded.id }
                /\ Return(r, Ok(row))
    /\ UNCHANGED <<contacts, meetings, assets, summaries, drafts, files, nextId, session>>

\* delete_customer up to the 404 test
delete_customer_lookup(r) ==
    /\ At(r, "delete_customer", "run")
    /\ LET customer == ById(customers, req[r].id)
       IN  IF customer = {} THEN Return(r, NotFound(<<"Customer not found">>))
           ELSE Goto(r, "commit", TheRow(customer))
    /\ UNCHANGED <<store, files, nextId, session, origin>>

\* what db.delete(customer); db.commit() leaves of each table: the ORM
\* cascade deletes the children it loads and ON DELETE CASCADE the rest.  A
\* row deleted in the meantime only draws the ORM's rowcount warning.
CascadeKeepSummaries(customer_id) ==
    LET gone == MeetingIdsOf(customer_id)
    IN  [customers |-> { c \in customers : c.id # customer_id },
         contacts |-> { c \in contacts : c.customer_id # customer_id },
         meetings |-> meetings \ MeetingsOf(customer_id),
         assets |-> { a \in assets : a.meeting_id \notin gone },
         summaries |-> summaries,
         drafts |-> { d \in drafts : d.meeting_id \notin gone }]
Cascade(customer_id) ==
    LET gone == MeetingIdsOf(customer_id)
    IN  [customers |-> { c \in customers : c.id # customer_id },
         contacts |-> { c \in contacts : c.customer_id # customer_id },
         meetings |-> meetings \ MeetingsOf(customer_id),
         assets |-> { a \in assets : a.meeting_id \notin gone },
         summaries |-> { x \in summaries : x.meeting_id \notin gone },
         drafts |-> { d \in drafts : d.meeting_id \notin gone }]

delete_customer_commit(r) ==
    /\ At(r, "delete_customer", "commit")
    /\ LET left == Cascade(req[r].id)
       IN  /\ customers' = left.customers
           /\ contacts' = left.contacts
           /\ meetings' = left.meetings
           /\ assets' = left.assets
           /\ summaries' = left.summaries
           /\ drafts' = left.drafts
    /\ origin' = { o \in origin : o.id # req[r].id }
    /\ Return(r, Ok(<<"Customer deleted successfully">>))
    /\ UNCHANGED <<files, nextId, session>>

----------------------------------------------------------------------------
(* main.py: contact and meeting routes *)

create_contact_lookup(r) ==
    /\ At(r, "create_contact", "run")
    /\ LET customer == ById(customers, req[r].id)
       IN  IF customer = {} THEN Return(r, NotFound(<<"Customer not found">>))
           ELSE Goto(r, "commit", <<>>)
    /\ UNCHANGED <<store, files, nextId, session, origin>>

\* Contact(**contact.dict(), customer_id=customer_id), add, commit, refresh:
\* the INSERT passes the foreign key and the check constraint or the commit
\* raises IntegrityError
create_contact_commit(r) ==
    /\ At(r, "create_contact", "commit")
    /\ LET db_contact == [id |-> nextId, customer_id |-> req[r].id,
                          email |-> req[r].arg.email]
       IN  IF ForeignKeyOk(customers, req[r].id) /\ unique_customer_email(db_contact)
           THEN /\ contacts' = contacts \cup {db_contact}
                /\ Return(r, Ok(db_contact))
           ELSE /\ Return(r, ServerError(<<"IntegrityError">>))
                /\ UNCHANGED contacts
    /\ nextId' = nextId + 1
    /\ UNCHANGED <<customers, meetings, assets, summaries, drafts, files, session, origin>>

\* the orders .order_by(Meeting.meeting_date.desc()) may return rows in
DateKey(d) == (d.y * 12 + d.m) * 31 + d.d

DateDescOrderings(S) ==
    { ord \in Orderings(S) :
        \A i, j \in DOMAIN ord :
            i < j => DateKey(ord[i].meeting_date) >= DateKey(ord[j].meeting_date) }

\* get_customer_meetings: no lookup of the customer
get_customer_meetings(r) ==
    /\ At(r, "get_customer_meetings", "run")
    /\ \E ord \in DateDescOrderings(MeetingsOf(req[r].id)) :
          Return(r, Ok([i \in DOMAIN ord |-> MeetingResponse(ord[i])]))
    /\ UNCHANGED <<store, files, nextId, session, origin>>

\* the declarative constructor: a keyword that is no attribute of the class
\* is a TypeError
MeetingAttributes ==
    { "id", "customer_id", "meeting_date", "_title_hint", "raw_notes", "created_by",
      "created_at", "customer", "creator", "assets", "summaries", "email_drafts",
      "title" }

\* the keywords of Meeting(**meeting.dict(), customer_id=..., created_by=...)
MeetingKeywords ==
    { "meeting_date", "title_hint", "raw_notes", "customer_id", "created_by" }

\* create_meeting: the schema's title_hint is no attribute of Meeting (the
\* column is _title_hint), so the constructor raises before db.add
create_meeting(r) ==
    /\ At(r, "create_meeting", "run")
    /\ LET customer == ById(customers, req[r].id)
           db_meeting == [id |-> nextId, customer_id |-> req[r].id,
                          meeting_date |-> req[r].arg.meeting_date,
                          _title_hint |-> None,
                          raw_notes |-> req[r].arg.raw_notes]
       IN  IF customer = {}
           THEN /\ Return(r, NotFound(<<"Customer not found">>))
                /\ UNCHANGED <<meetings, nextId>>
           ELSE IF ~(MeetingKeywords \subseteq MeetingAttributes)
           THEN /\ Return(r, ServerError(<<"TypeError">>))
                /\ UNCHANGED <<meetings, nextId>>
           ELSE /\ meetings' = meetings \cup {db_meeting}
                /\ nextId' = nextId + 1
                /\ Return(r, Ok(MeetingResponse(db_meeting)))
    /\ UNCHANGED <<customers, contacts, assets, summaries, drafts, files, session, origin>>

get_meeting(r) ==
    /\ At(r, "get_meeting", "run")
    /\ LET meeting == ById(meetings, req[r].id)
       IN  IF meeting = {} THEN Return(r, NotFound(<<"Meeting not found">>))
           ELSE Return(r, Ok(MeetingResponse(TheRow(meeting))))
    /\ UNCHANGED <<store, files, nextId, session, origin>>

upload_meeting_asset_lookup(r) ==
    /\ At(r, "upload_meeting_asset", "run")
    /\ LET meeting == ById(meetings, req[r].id)
       IN  IF meeting = {} THEN Return(r, NotFound(<<"Meeting not found">>))
           ELSE Goto(r, "commit", <<>>)
    /\ UNCHANGED <<store, files, nextId, session, origin>>

\* "image" if file.content_type.startswith("image/") else "file"
Kind(content_type) ==
    IF StartsWith(content_type, <<"i", "m", "a", "g", "e", "/">>) THEN "image" ELSE "file"

\* upload_meeting_asset from the file write on: the file is written, then
\* content_type.startswith raises AttributeError on None, else the INSERT
\* passes the foreign key or the commit raises IntegrityError
upload_meeting_asset_commit(r) ==
    /\ At(r, "upload_meeting_asset", "commit")
    /\ files' = files \cup {req[r].id}
    /\ IF req[r].arg.content_type = None
       THEN /\ Return(r, ServerError(<<"AttributeError">>))
            /\ UNCHANGED <<assets, nextId>>
       ELSE LET asset == [id |-> nextId, meeting_id |-> req[r].id,
                          kind |-> Kind(req[r].arg.content_type)]
            IN  /\ nextId' = nextId + 1
                /\ IF ForeignKeyOk(meetings, req[r].id) /\ valid_asset_kind(asset)
                   THEN /\ assets' = assets \cup {asset}
                        /\ Return(r, Ok([asset_id |-> asset.id]))
                   ELSE /\ Return(r, ServerError(<<"IntegrityError">>))
                        /\ UNCHANGED assets
    /\ UNCHANGED <<customers, contacts, meetings, summaries, drafts, session, origin>>

----------------------------------------------------------------------------
(* main.py: AI routes *)

create_ai_summary_lookup(r) ==
    /\ At(r, "create_ai_summary", "run")
    /\ LET meeting == ById(meetings, req[r].id)
       IN  IF meeting = {} THEN Return(r, NotFound(<<"Meeting not found">>))
           ELSE Goto(r, "version", [meeting |-> TheRow(meeting)])
    /\ UNCHANGED <<store, files, nextId, session, origin>>

\* latest_summary and next_version
create_ai_summary_version(r) ==
    /\ At(r, "create_ai_summary", "version")
    /\ Goto(r, "commit", [meeting |-> req[r].local.meeting,
                          next_version |-> NextVersion(summaries, req[r].id)])
    /\ UNCHANGED <<store, files, nextId, session, origin>>

create_ai_summary_commit_replacing(r) ==
    /\ At(r, "create_ai_summary", "commit")
    /\ LET summary == [id |-> nextId, meeting_id |-> req[r].id,
                       version |-> req[r].local.next_version,
                       language |-> req[r].arg.language,
                       summary_md |-> generate_meeting_summary(req[r].local.meeting,
                                                               req[r].arg.language)]
       IN  IF ForeignKeyOk(meetings, req[r].id)
           THEN /\ summaries' = { x \in summaries : x.meeting_id # req[r].id } \cup {summary}
                /\ Return(r, Ok([summary_id |-> summary.id, version |-> summary.version,
                                 language |-> summary.language]))
           ELSE /\ Return(r, ServerError(<<"IntegrityError">>))
                /\ UNCHANGED summaries
    /\ nextId' = nextId + 1
    /\ UNCHANGED <<customers, contacts, meetings, assets, drafts, files, session, origin>>

\* generate_meeting_summary on the loaded meeting, then add, commit, refresh
create_ai_summary_commit(r) ==
    /\ At(r, "create_ai_summary", "commit")
    /\ LET summary == [id |-> nextId, meeting_id |-> req[r].id,
                       version |-> req[r].local.next_version,
                       language |-> req[r].arg.language,
                       summary_md |-> generate_meeting_summary(req[r].local.meeting,
                                                               req[r].arg.language)]
       IN  IF ForeignKeyOk(meetings, req[r].id) /\ unique_meeting_version(summaries, summary)
           THEN /\ summaries' = summaries \cup {summary}
                /\ Return(r, Ok([summary_id |-> summary.id, version |-> summary.version,
                                 language |-> summary.language]))
           ELSE /\ Return(r, ServerError(<<"IntegrityError">>))
                /\ UNCHANGED summaries
    /\ nextId' = nextId + 1
    /\ UNCHANGED <<customers, contacts, meetings, assets, drafts, files, session, origin>>

create_email_draft_lookup(r) ==
    /\ At(r, "create_email_draft", "run")
    /\ LET meeting == ById(meetings, req[r].id)
       IN  IF meeting = {} THEN Return(r, NotFound(<<"Meeting not found">>))
           ELSE Goto(r, "version", [meeting |-> TheRow(meeting)])
    /\ UNCHANGED <<store, files, nextId, session, origin>>

\* latest_draft and next_version
create_email_draft_version(r) ==
    /\ At(r, "create_email_draft", "version")
    /\ Goto(r, "contacts", [meeting |-> req[r].local.meeting,
                            next_version |-> NextVersion(drafts, req[r].id)])
    /\ UNCHANGED <<store, files, nextId, session, origin>>

\* contacts[:2] and contacts[2:]
ToEmails(found) == [i \in 1..(IF Len(found) < 2 THEN Len(found) ELSE 2) |-> found[i].email]

CcEmailsDropped(found) == <<>>

CcEmails(found) == [i \in 1..(IF Len(found) < 2 THEN 0 ELSE Len(found) - 2) |-> found[i + 2].email]

\* generate_email_draft (meeting.customer is loaded here) and the contacts
\* query, which has no ORDER BY
create_email_draft_contacts(r) ==
    /\ At(r, "create_email_draft", "contacts")
    /\ LET meeting == req[r].local.meeting
           email_content == generate_email_draft(meeting, req[r].arg.language,
                                                 ById(customers, meeting.customer_id))
       IN  \E found \in Orderings({ c \in contacts : /\ c.customer_id = meeting.customer_id
                                                      /\ c.email # None }) :
              Goto(r, "commit", [meeting |-> meeting,
                                 next_version |-> req[r].local.next_version,
                                 email_content |-> email_content,
                                 to_emails |-> ToEmails(found),
                                 cc_emails |-> CcEmails(found)])
    /\ UNCHANGED <<store, files, nextId, session, origin>>

\* EmailDraft(...), add, commit, refresh
create_email_draft_commit(r) ==
    /\ At(r, "create_email_draft", "commit")
    /\ LET draft == [id |-> nextId, meeting_id |-> req[r].id,
                     version |-> req[r].local.next_version,
                     subject |-> req[r].local.email_content.subject,
                     body_html |-> req[r].local.email_content.body,
                     to_emails |-> req[r].local.to_emails,
                     cc_emails |-> req[r].local.cc_emails,
                     language |-> req[r].arg.language]
       IN  IF ForeignKeyOk(meetings, req[r].id) /\ unique_meeting_version(drafts, draft)
           THEN /\ drafts' = drafts \cup {draft}
                /\ Return(r, Ok([email_draft_id |-> draft.id, version |-> draft.version,
                                 subject |-> draft.subject]))
           ELSE /\ Return(r, ServerError(<<"IntegrityError">>))
                /\ UNCHANGED drafts
    /\ nextId' = nextId + 1
    /\ UNCHANGED <<customers, contacts, meetings, assets, summaries, files, session, origin>>

----------------------------------------------------------------------------
(* Specifications *)

\* the slot of the one-request-at-a-time specifications
Single == CHOOSE r \in Req : \A s \in Req : r <= s

\* the customer routes, one request at a time
InitCustomers == InitWith({Customer1, Customer2}, {}, {Meeting3}, {}, {}, {}, 10)

NextCustomers ==
    \/ request_get_customers(Single, SearchTerms, Limits, Offsets)
    \/ request_create_customer(Single, CustomerBodies)
    \/ request_get_customer(Single, CustomerIds)
    \/ request_update_customer(Single, CustomerIds, Updates)
    \/ request_delete_customer(Single, CustomerIds)
    \/ get_customers(Single)
    \/ create_customer(Single)
    \/ get_customer(Single)
    \/ update_customer_lookup(Single)
    \/ update_customer_commit(Single)
    \/ delete_customer_lookup(Single)
    \/ delete_customer_commit(Single)
    \/ Finish(Single)

SpecCustomers == InitCustomers /\ [][NextCustomers]_vars

\* the routes under a meeting or a customer's meetings and contacts, one
\* request at a time
InitMeetings == InitWith({Customer1, Customer2}, {}, {Meeting3}, {}, {}, {}, 9)

NextMeetings ==
    \/ request_auth(Single)
    \/ request_delete_customer(Single, CustomerIds)
    \/ request_create_contact(Single, CustomerIds, Emails)
    \/ request_get_customer_meetings(Single, CustomerIds)
    \/ request_create_meeting(Single, CustomerIds, Dates, {<<"K", "i">>}, {None})
    \/ request_get_meeting(Single, MeetingIds)
    \/ request_upload_meeting_asset(Single, MeetingIds, ContentTypes)
    \/ request_create_ai_summary(Single, MeetingIds, {"en"})
    \/ request_create_email_draft(Single, MeetingIds, {"en"})
    \/ login(Single)
    \/ logout(Single)
    \/ get_current_user_info(Single)
    \/ delete_customer_lookup(Single)
    \/ delete_customer_commit(Single)
    \/ create_contact_lookup(Single)
    \/ create_contact_commit(Single)
    \/ get_customer_meetings(Single)
    \/ create_meeting(Single)
    \/ get_meeting(Single)
    \/ upload_meeting_asset_lookup(Single)
    \/ upload_meeting_asset_commit(Single)
    \/ create_ai_summary_lookup(Single)
    \/ create_ai_summary_version(Single)
    \/ create_ai_summary_commit(Single)
    \/ create_email_draft_lookup(Single)
    \/ create_email_draft_version(Single)
    \/ create_email_draft_contacts(Single)
    \/ create_email_draft_commit(Single)
    \/ Finish(Single)

SpecMeetings == InitMeetings /\ [][NextMeetings]_vars

\* several workers on one database: the statements of the writing routes of
\* the requests in flight interleave.  Customer 2 and its rows are there from
\* the start; the requests are for customer 1 and its meeting.
Contact5 == [id |-> 5, customer_id |-> 2, email |-> <<"b", "@", "x">>]

Asset6 == [id |-> 6, meeting_id |-> 4, kind |-> "file"]

Summary7 == [id |-> 7, meeting_id |-> 4, version |-> 1, language |-> "en",
             summary_md |-> generate_meeting_summary(Meeting4, "en")]

Draft8 == [id |-> 8, meeting_id |-> 4, version |-> 1,
           subject |-> generate_email_draft(Meeting4, "en", {Customer2}).subject,
           body_html |-> generate_email_draft(Meeting4, "en", {Customer2}).body,
           to_emails |-> <<Contact5.email>>, cc_emails |-> <<>>, language |-> "en"]

Init ==
    InitWith({Customer1, Customer2}, {Contact5}, {Meeting3, Meeting4}, {Asset6},
             {Summary7}, {Draft8}, 9)

Next ==
    \E r \in Req :
        \/ request_delete_customer(r, {Customer1.id})
        \/ request_create_contact(r, {Customer1.id}, Emails)
        \/ request_upload_meeting_asset(r, {Meeting3.id}, {ImagePng, None})
        \/ request_create_ai_summary(r, {Meeting3.id}, {"en"})
        \/ request_create_email_draft(r, {Meeting3.id}, {"en"})
        \/ delete_customer_lookup(r)
        \/ delete_customer_commit(r)
        \/ create_contact_lookup(r)
        \/ create_contact_commit(r)
        \/ upload_meeting_asset_lookup(r)
        \/ upload_meeting_asset_commit(r)
        \/ create_ai_summary_lookup(r)
        \/ create_ai_summary_version(r)
        \/ create_ai_summary_commit(r)
        \/ create_email_draft_lookup(r)
        \/ create_email_draft_version(r)
        \/ create_email_draft_contacts(r)
        \/ create_email_draft_commit(r)
        \/ Finish(r)

Spec == Init /\ [][Next]_vars

\* the title and the summary over the meeting fields: a store with one
\* meeting whose date, hint and notes are drawn from the input sets
InitTitles ==
    \E date \in Dates, hint \in Hints, notes \in MeetingNotes :
        InitWith({Customer1}, {}, {MeetingRow(3, 1, date, hint, notes)}, {}, {}, {}, 9)

NextTitles ==
    \/ request_get_meeting(Single, MeetingIds)
    \/ request_create_ai_summary(Single, MeetingIds, Languages)
    \/ get_meeting(Single)
    \/ create_ai_summary_lookup(Single)
    \/ create_ai_summary_version(Single)
    \/ create_ai_summary_commit(Single)
    \/ Finish(Single)

SpecTitles == InitTitles /\ [][NextTitles]_vars

Contact6 == [id |-> 6, customer_id |-> 1, email |-> <<"a", "@", "x">>]

Contact7 == [id |-> 7, customer_id |-> 1, email |-> <<"b", "@", "x">>]

\* the recipients of a draft over the contacts: a store whose contacts are
\* any of three rows, one of customer 2 and two of customer 1, the second
\* with the address the contact of customer 2 has
InitDrafts ==
    \E ks \in SUBSET {Contact5, Contact6, Contact7} :
        InitWith({Customer1, Customer2}, ks, {Meeting3, Meeting4}, {}, {}, {}, 9)

NextDrafts ==
    \/ request_create_contact(Single, CustomerIds, Emails)
    \/ request_create_email_draft(Single, MeetingIds, {"en", "he"})
    \/ create_contact_lookup(Single)
    \/ create_contact_commit(Single)
    \/ create_email_draft_lookup(Single)
    \/ create_email_draft_version(Single)
    \/ create_email_draft_contacts(Single)
    \/ create_email_draft_commit(Single)
    \/ Finish(Single)

SpecDrafts == InitDrafts /\ [][NextDrafts]_vars

----------------------------------------------------------------------------
(* Claims *)

SummariesOf(meeting_id) == { x \in summaries : x.meeting_id = meeting_id }

DraftsOf(meeting_id) == { x \in drafts : x.meeting_id = meeting_id }

\* C1: with one request at a time, the summaries of a meeting carry exactly
\* the versions 1..n, n the number of its rows, and the summarize request
\* that has just answered reports the version n of the row it added
C1_SequentialVersions ==
    /\ \A m \in meetings :
          { x.version : x \in SummariesOf(m.id) } = 1..Cardinality(SummariesOf(m.id))
    /\ \A r \in Req :
          (At(r, "create_ai_summary", "exit") /\ req[r].resp.status = 200) =>
              /\ req[r].resp.body.version = Cardinality(SummariesOf(req[r].id))
              /\ \E x \in SummariesOf(req[r].id) :
                    /\ x.id = req[r].resp.body.summary_id
                    /\ x.version = req[r].resp.body.version

\* the second summarize request on meeting 3 has answered with version 2 and
\* the rows of versions 1 and 2 are both stored
C1_Witness ==
    \E r \in Req :
        /\ At(r, "create_ai_summary", "exit")
        /\ req[r].resp.status = 200
        /\ req[r].resp.body.version = 2
        /\ { x.version : x \in SummariesOf(Meeting3.id) } = {1, 2}

\* every child row has its parent row
ReferencesHold ==
    /\ \A k \in contacts : \E c \in customers : c.id = k.customer_id
    /\ \A m \in meetings : \E c \in customers : c.id = m.customer_id
    /\ \A a \in assets : \E m \in meetings : m.id = a.meeting_id
    /\ \A x \in summaries : \E m \in meetings : m.id = x.meeting_id
    /\ \A d \in drafts : \E m \in meetings : m.id = d.meeting_id

\* slot r's delete_customer commits in this step and answers 200
DeleteSucceeds(r) ==
    /\ At(r, "delete_customer", "commit")
    /\ req'[r].pc = "exit"
    /\ req'[r].resp.status = 200

\* after the step no row of customer c is left, and the rows of the other
\* customers are the ones there were
Cascaded(c) ==
    LET mine == { m.id : m \in { x \in meetings : x.customer_id = c } }
    IN  /\ \A x \in customers' : x.id # c
        /\ \A k \in contacts' : k.customer_id # c
        /\ \A m \in meetings' : m.customer_id # c
        /\ \A a \in assets' : a.meeting_id \notin mine
        /\ \A x \in summaries' : x.meeting_id \notin mine
        /\ \A d \in drafts' : d.meeting_id \notin mine
        /\ customers' = { x \in customers : x.id # c }
        /\ contacts' = { k \in contacts : k.customer_id # c }
        /\ meetings' = { m \in meetings : m.customer_id # c }
        /\ assets' = { a \in assets : a.meeting_id \notin mine }
        /\ summaries' = { x \in summaries : x.meeting_id \notin mine }
        /\ drafts' = { d \in drafts : d.meeting_id \notin mine }

\* C2: in every state each contact and meeting has its customer and each
\* asset, summary and draft its meeting; and a delete_customer that succeeds
\* for c leaves no contact or meeting of c and no asset, summary or draft of
\* a meeting of c, and leaves the rows of every other customer as they were
C2_CascadeAndReferences ==
    /\ []ReferencesHold
    /\ [][\A r \in Req : DeleteSucceeds(r) => Cascaded(req[r].id)]_vars

\* customer 1 has been deleted after an upload to its meeting had answered
\* with the identifier of the asset it stored: that asset is gone, the rows of
\* customer 2 are all there
C2_Witness ==
    \E r, s \in Req :
        /\ At(r, "upload_meeting_asset", "exit") /\ req[r].resp.status = 200
        /\ At(s, "delete_customer", "exit") /\ req[s].resp.status = 200
        /\ \A a \in assets : a.id # req[r].resp.body.asset_id
        /\ \A c \in customers : c.id # Customer1.id
        /\ Customer2 \in customers /\ Contact5 \in contacts /\ Meeting4 \in meetings
        /\ Asset6 \in assets /\ Summary7 \in summaries /\ Draft8 \in drafts

\* slot r's commit of route op ends in this step
Commits(r, op) == At(r, op, "commit") /\ req'[r].pc = "exit"

\* the step adds to table one row of the meeting and version slot r computed
\* when it read the latest version, and answers 200
AddsComputedVersion(r, table, tableAfter) ==
    /\ req'[r].resp.status = 200
    /\ \E row \in tableAfter \ table :
          /\ tableAfter = table \cup {row}
          /\ row.meeting_id = req[r].id
          /\ row.version = req[r].local.next_version

\* C3: the version a summarize or draft-email request stores is the one it
\* computed from the rows it read, whatever has been committed since: as
\* long as the meeting is there the insert is accepted, also when a row of
\* that meeting with that version is already stored
C3_VersionNotAtomic ==
    [][\A r \in Req :
          /\ (Commits(r, "create_ai_summary") /\ ForeignKeyOk(meetings, req[r].id))
                => AddsComputedVersion(r, summaries, summaries')
          /\ (Commits(r, "create_email_draft") /\ ForeignKeyOk(meetings, req[r].id))
                => AddsComputedVersion(r, drafts, drafts')]_vars

\* two summarize requests on meeting 3 have both answered with the same
\* version, and two rows of meeting 3 with that version are stored
C3_Witness ==
    /\ \A r \in Req : At(r, "create_ai_summary", "exit") /\ req[r].resp.status = 200
    /\ \E r, s \in Req : r # s /\ req[r].resp.body.version = req[s].resp.body.version
    /\ \E x, y \in SummariesOf(Meeting3.id) : x.id # y.id /\ x.version = y.version

\* the same for two draft-email requests
C3_DraftWitness ==
    /\ \A r \in Req : At(r, "create_email_draft", "exit") /\ req[r].resp.status = 200
    /\ \E x, y \in DraftsOf(Meeting3.id) : x.id # y.id /\ x.version = y.version

\* the routes whose path carries a customer identifier, and a meeting one
CustomerRoutes == { "get_customer", "update_customer", "delete_customer",
                    "create_contact", "get_customer_meetings", "create_meeting" }

MeetingRoutes == { "get_meeting", "upload_meeting_asset", "create_ai_summary",
                   "create_email_draft" }

\* slot r's handler of one of the routes starts on an identifier no row has
StartsOnAbsent(r, routes) ==
    /\ req[r].pc = "run"
    /\ req'[r].pc # "run"
    /\ \/ req[r].op \in routes \cap CustomerRoutes /\ ById(customers, req[r].id) = {}
       \/ req[r].op \in routes \cap MeetingRoutes /\ ById(meetings, req[r].id) = {}

\* the handler answers 404 and the store is as it was
Answers404(r) ==
    /\ req'[r].pc = "exit"
    /\ req'[r].resp.status = 404
    /\ store' = store
    /\ files' = files

\* C4: every route with a customer or meeting identifier answers 404 when no
\* row has the identifier, and leaves the store unchanged
C4_NotFoundEveryRoute ==
    [][\A r \in Req :
          StartsOnAbsent(r, CustomerRoutes \cup MeetingRoutes) => Answers404(r)]_vars

\* the same for every such route but the listing of a customer's meetings
C4_NotFoundButListing ==
    [][\A r \in Req :
          StartsOnAbsent(r, (CustomerRoutes \cup MeetingRoutes) \ {"get_customer_meetings"})
              => Answers404(r)]_vars

\* C5: while a request with a session is in flight its session is open and
\* has not been closed; once the request has completed, however its handler
\* ended, the session is closed and close() has run on it exactly once
C5_SessionClosedOnce ==
    \A r \in Req :
        /\ req[r].pc # "idle" =>
              IF req[r].op = "logout" THEN session[r] = NoSession
              ELSE session[r] = [state |-> "open", closes |-> 0]
        /\ req[r].pc = "idle" =>
              session[r] \in { NoSession, [state |-> "closed", closes |-> 1] }

\* a request whose commit raised has completed (its identifier is used up and
\* no row was added) and its session is closed, while the other slot's
\* request, answered 404, still holds its open session
C5_Witness ==
    \E r, s \in Req :
        /\ req[r].pc = "idle"
        /\ session[r] = [state |-> "closed", closes |-> 1]
        /\ nextId = 10
        /\ contacts = {Contact5} /\ assets = {Asset6}
        /\ summaries = {Summary7} /\ drafts = {Draft8}
        /\ req[s].pc = "exit" /\ req[s].resp.status = 404
        /\ session[s].state = "open"

\* slot r's get_customer has answered for a customer created through the API
\* with the values o and neither updated nor deleted since
FetchedAsCreated(r, o) ==
    /\ At(r, "get_customer", "exit")
    /\ o \in origin
    /\ o.id = req[r].id

\* a is b to two fractional digits, a tie going away from zero (amounts in
\* thousandths, none negative)
RoundedToCents(a, b) == b % 10 = 0 /\ b - a \in -4..5

\* C6 as claimed: the fetch returns the name, the amount and the notes the
\* customer was created with
C6_RoundTripExact ==
    \A r \in Req : \A o \in origin :
        FetchedAsCreated(r, o) =>
            /\ req[r].resp.status = 200
            /\ req[r].resp.body.name = o.name
            /\ req[r].resp.body.arr_usd = o.arr_usd
            /\ req[r].resp.body.notes = o.notes

\* C6 as amended: the fetch returns the name and the notes the customer was
\* created with and the amount rounded to two fractional digits, which is
\* the amount itself when it has no more than two
C6_RoundTripRounded ==
    \A r \in Req : \A o \in origin :
        FetchedAsCreated(r, o) =>
            /\ req[r].resp.status = 200
            /\ req[r].resp.body.id = o.id
            /\ req[r].resp.body.name = o.name
            /\ RoundedToCents(o.arr_usd, req[r].resp.body.arr_usd)
            /\ (o.arr_usd % 10 = 0 => req[r].resp.body.arr_usd = o.arr_usd)
            /\ req[r].resp.body.notes = o.notes

\* a customer created with 12.345 is fetched as 12.35 after another customer
\* was created in between
C6_Witness ==
    \E r \in Req : \E o \in origin :
        /\ FetchedAsCreated(r, o)
        /\ o.arr_usd = 12345
        /\ req[r].resp.body.arr_usd = 12350
        /\ \E other \in origin : other.id > o.id

\* the number a sequence of digits writes
RECURSIVE DigitsValue(_)
DigitsValue(ds) ==
    IF ds = <<>> THEN 0
    ELSE 10 * DigitsValue(SubSeq(ds, 1, Len(ds) - 1))
         + (CHOOSE k \in 0..9 : Digits[k + 1] = ds[Len(ds)])

\* t is date d written YYYY-MM-DD
IsIsoDate(t, d) ==
    /\ Len(t) = 10
    /\ t[5] = "-" /\ t[8] = "-"
    /\ \A i \in {1, 2, 3, 4, 6, 7, 9, 10} : \E k \in 0..9 : Digits[k + 1] = t[i]
    /\ DigitsValue(SubSeq(t, 1, 4)) = d.y
    /\ DigitsValue(SubSeq(t, 6, 7)) = d.m
    /\ DigitsValue(SubSeq(t, 9, 10)) = d.d

Blank(hint) == hint = None \/ \A i \in DOMAIN hint : hint[i] \in Whitespace

\* h is what the title shows for hint: the hint from its first to its last
\* character that is not whitespace, or the word Meeting when it has none
IsShownHint(h, hint) ==
    IF Blank(hint) THEN h = <<"M", "e", "e", "t", "i", "n", "g">>
    ELSE \E i, j \in DOMAIN hint :
            /\ i <= j
            /\ hint[i] \notin Whitespace /\ hint[j] \notin Whitespace
            /\ \A k \in DOMAIN hint : (k < i \/ k > j) => hint[k] \in Whitespace
            /\ h = SubSeq(hint, i, j)

\* t is the title of meeting row m
IsTitleOf(t, m) ==
    /\ Len(t) >= 13
    /\ IsIsoDate(SubSeq(t, 1, 10), m.meeting_date)
    /\ SubSeq(t, 11, 13) = <<" ", EnDash, " ">>
    /\ IsShownHint(SubSeq(t, 14, Len(t)), m._title_hint)

Title_2024_01_15 == <<"2", "0", "2", "4", "-", "0", "1", "-", "1", "5", " ", EnDash, " ">>

\* C7: the title get_meeting returns is the stored date as YYYY-MM-DD, " - "
\* with an en dash, and the stripped hint or Meeting; 2024-01-15 gives
\* "2024-01-15 - Meeting" without a hint and "2024-01-15 - Kickoff" with the
\* hint Kickoff; the stored row holds the date and the hint and no title
C7_TitleDerived ==
    /\ \A m \in meetings :
          DOMAIN m = {"id", "customer_id", "meeting_date", "_title_hint", "raw_notes"}
    /\ \A r \in Req :
          (At(r, "get_meeting", "exit") /\ req[r].resp.status = 200) =>
              \E m \in meetings :
                  /\ m.id = req[r].id
                  /\ IsTitleOf(req[r].resp.body.title, m)
                  /\ (m.meeting_date = [y |-> 2024, m |-> 1, d |-> 15] /\ m._title_hint = <<>>)
                        => req[r].resp.body.title = Title_2024_01_15 \o DefaultHint
                  /\ (m.meeting_date = [y |-> 2024, m |-> 1, d |-> 15] /\ m._title_hint = Kickoff)
                        => req[r].resp.body.title = Title_2024_01_15 \o Kickoff

\* get_meeting has answered for a meeting whose hint has whitespace around
\* it, with the title ending in the hint without it
C7_Witness ==
    \E r \in Req : \E m \in meetings :
        /\ At(r, "get_meeting", "exit") /\ req[r].resp.status = 200
        /\ m.id = req[r].id
        /\ m._title_hint = <<" ", "K", " ", "i", "\n">>
        /\ m.meeting_date = [y |-> 2025, m |-> 12, d |-> 5]
        /\ req[r].resp.body.title =
              <<"2", "0", "2", "5", "-", "1", "2", "-", "0", "5", " ", EnDash, " ", "K", " ", "i">>

\* name has s as a substring when letter case is ignored
ContainsIgnoringCase(name, s) ==
    \E i \in 1..(Len(name) - Len(s) + 1) :
        \A k \in 1..Len(s) : Lower(name[i + k - 1]) = Lower(s[k])

\* body is a window of the rows of S: rows of S, none twice
IsWindowOf(body, S) ==
    /\ \A i \in DOMAIN body : body[i] \in S
    /\ \A i, j \in DOMAIN body : i # j => body[i] # body[j]

\* how many rows the window offset, limit holds of n rows
WindowSize(n, offset, limit) ==
    IF n <= offset THEN 0 ELSE IF n - offset < limit THEN n - offset ELSE limit

\* C8: a listing with a non-empty search term returns a window of exactly
\* the customers whose name contains the term, letter case ignored; a
\* listing without a term returns a window of all customers
C8_SearchIsSubstring ==
    \A r \in Req :
        At(r, "get_customers", "exit") =>
            LET search == req[r].arg.search
                matching == IF search = None \/ search = <<>> THEN customers
                            ELSE { c \in customers : ContainsIgnoringCase(c.name, search) }
            IN  /\ req[r].resp.status = 200
                /\ IsWindowOf(req[r].resp.body, matching)
                /\ Len(req[r].resp.body)
                      = WindowSize(Cardinality(matching), req[r].arg.offset, req[r].arg.limit)

\* the same for the search terms without the LIKE wildcards % and _ (and the
\* escape character)
C8_SearchIsSubstringNoWildcard ==
    \A r \in Req :
        (/\ At(r, "get_customers", "exit")
         /\ \/ req[r].arg.search = None
            \/ \A i \in DOMAIN req[r].arg.search : req[r].arg.search[i] \notin {"%", "_", "\\"})
        =>  LET search == req[r].arg.search
                matching == IF search = None \/ search = <<>> THEN customers
                            ELSE { c \in customers : ContainsIgnoringCase(c.name, search) }
            IN  /\ req[r].resp.status = 200
                /\ IsWindowOf(req[r].resp.body, matching)
                /\ Len(req[r].resp.body)
                      = WindowSize(Cardinality(matching), req[r].arg.offset, req[r].arg.limit)

\* the step adds exactly one asset, of meeting meeting_id and of the kind the
\* content type asks for
AddsOneAsset(meeting_id, content_type) ==
    \E a \in assets' \ assets :
        /\ assets' = assets \cup {a}
        /\ a.meeting_id = meeting_id
        /\ a.kind = IF content_type # None /\ Len(content_type) >= 6
                       /\ SubSeq(content_type, 1, 6) = <<"i", "m", "a", "g", "e", "/">>
                    THEN "image" ELSE "file"

\* C9: every upload to a meeting that exists adds exactly one asset of that
\* meeting, of kind image when the content type starts with image/ and of
\* kind file otherwise, and every asset's kind is image or file
C9_UploadAddsOneAsset ==
    [][ /\ \A a \in assets' : a.kind \in {"image", "file"}
        /\ \A r \in Req :
              (Commits(r, "upload_meeting_asset") /\ ById(meetings, req[r].id) # {})
              => AddsOneAsset(req[r].id, req[r].arg.content_type) ]_vars

\* the same for the uploads whose part carries a content type
C9_UploadWithContentTypeAddsOneAsset ==
    [][ /\ \A a \in assets' : a.kind \in {"image", "file"}
        /\ \A r \in Req :
              (/\ Commits(r, "upload_meeting_asset")
               /\ ById(meetings, req[r].id) # {}
               /\ req[r].arg.content_type # None)
              => AddsOneAsset(req[r].id, req[r].arg.content_type) ]_vars

\* text holds the pieces before, shown, after one right after the other
ShowsBetween(text, before, shown, after) ==
    \E i \in DOMAIN text :
        /\ text[i] = before
        /\ i + Len(shown) + 1 \in DOMAIN text
        /\ SubSeq(text, i + 1, i + Len(shown)) = shown
        /\ text[i + Len(shown) + 1] = after

\* md is the Hebrew content for meeting m: the Hebrew heading, and under the
\* Hebrew key decisions the notes as they are, or the Hebrew placeholder
IsHebrewContent(md, m) ==
    /\ md # <<>> /\ md[1] = HeHeading
    /\ ShowsBetween(md, HeKeyDecisions,
                    IF m.raw_notes = None \/ m.raw_notes = <<>>
                    THEN HePlaceholder ELSE m.raw_notes,
                    HeRest)

\* md is the English content for meeting m
IsEnglishContent(md, m) ==
    /\ md # <<>> /\ md[1] = EnHeading
    /\ ShowsBetween(md, EnKeyDecisions,
                    IF m.raw_notes = None \/ m.raw_notes = <<>>
                    THEN EnPlaceholder ELSE m.raw_notes,
                    EnRest)

\* C10: a stored summary of language he is the Hebrew content and one of any
\* other language the English content, each with the meeting's notes as they
\* are or the placeholder; two summaries of one meeting are equal when both
\* or neither are of language he, and differ otherwise
C10_SummaryByLanguage ==
    \A m \in meetings : \A x \in SummariesOf(m.id) :
        /\ IF x.language = "he" THEN IsHebrewContent(x.summary_md, m)
                                ELSE IsEnglishContent(x.summary_md, m)
        /\ \A y \in SummariesOf(m.id) :
              (x.summary_md = y.summary_md) <=> ((x.language = "he") <=> (y.language = "he"))

\* a meeting with notes ending in a space has summaries of the languages he,
\* en and fr stored
C10_Witness ==
    \E m \in meetings :
        /\ m.raw_notes = <<"x", " ">>
        /\ { x.language : x \in SummariesOf(m.id) } = {"he", "en", "fr"}

\* a meeting without notes has summaries of the languages he and en stored
C10_PlaceholderWitness ==
    \E m \in meetings :
        /\ m.raw_notes \in {None, <<>>}
        /\ {"he", "en"} \subseteq { x.language : x \in SummariesOf(m.id) }

\* the customer a meeting, or the meeting of an asset, summary or draft,
\* belongs to before the step
OwnersOfMeeting(meeting_id) == { m.customer_id : m \in ById(meetings, meeting_id) }

\* the step is the commit of a delete_customer that succeeds for customer c
DeletedInStep(c) == \E r \in Req : DeleteSucceeds(r) /\ req[r].id = c

\* every row of the table before the step is the same row after it, or it
\* is gone and the step deleted the customer owning it; and no row after the
\* step carries the identifier of a row before it with other fields
RowsKeptOrCascaded(table, tableAfter, Owners(_)) ==
    /\ \A row \in table :
          \/ row \in tableAfter
          \/ \E c \in Owners(row) : DeletedInStep(c)
    /\ \A row \in table : \A after \in tableAfter : after.id = row.id => after = row

OwnersOfMeetingRow(m) == {m.customer_id}

OwnersOfChildRow(x) == OwnersOfMeeting(x.meeting_id)

\* the step adds exactly one row to the table and keeps the others
AddsOneRow(table, tableAfter) ==
    \E row \in tableAfter \ table : tableAfter = table \cup {row}

\* C11: no step changes a field of a stored meeting, asset, summary or
\* draft: each such row stays as it is, or is removed by the cascade of the
\* delete of its customer; a summarize or draft-email that answers 200 adds
\* one row to its table and leaves every other row of the four tables
C11_AppendOnly ==
    [][ /\ RowsKeptOrCascaded(meetings, meetings', OwnersOfMeetingRow)
        /\ RowsKeptOrCascaded(assets, assets', OwnersOfChildRow)
        /\ RowsKeptOrCascaded(summaries, summaries', OwnersOfChildRow)
        /\ RowsKeptOrCascaded(drafts, drafts', OwnersOfChildRow)
        /\ \A r \in Req :
              /\ (Commits(r, "create_ai_summary") /\ req'[r].resp.status = 200)
                 => /\ AddsOneRow(summaries, summaries')
                    /\ UNCHANGED <<meetings, assets, drafts>>
              /\ (Commits(r, "create_email_draft") /\ req'[r].resp.status = 200)
                 => /\ AddsOneRow(drafts, drafts')
                    /\ UNCHANGED <<meetings, assets, summaries>>
              /\ (Commits(r, "create_ai_summary") \/ Commits(r, "create_email_draft"))
                 => (summaries \subseteq summaries' /\ drafts \subseteq drafts') ]_vars

\* a second summary of meeting 3 is stored next to the first one, a draft of
\* meeting 3 too, and the asset, summary and draft of meeting 4 are as they
\* were
C11_Witness ==
    /\ \E x, y \in SummariesOf(Meeting3.id) : x.id # y.id
    /\ DraftsOf(Meeting3.id) # {}
    /\ Meeting3 \in meetings /\ Meeting4 \in meetings
    /\ Asset6 \in assets /\ Summary7 \in summaries /\ Draft8 \in drafts

\* a summarize on meeting 3 has answered 200 and the delete of customer 1
\* has then removed meeting 3 and its summary, the rows of meeting 4 staying
C11_CascadeWitness ==
    /\ \E r \in Req : At(r, "create_ai_summary", "exit") /\ req[r].resp.status = 200
    /\ \E r \in Req : At(r, "delete_customer", "exit") /\ req[r].resp.status = 200
    /\ Meeting3 \notin meetings /\ SummariesOf(Meeting3.id) = {}
    /\ Meeting4 \in meetings /\ Summary7 \in summaries

\* the contacts of customer c that have an email
ContactsWithEmail(c) == { k \in contacts : k.customer_id = c /\ k.email # None }

\* how many entries of list are the address e
OccurrencesOf(e, list) == Cardinality({ i \in DOMAIN list : list[i] = e })

\* to holds at most two entries and cc has entries only when to has two
ToThenCc(to, cc) ==
    /\ Len(to) <= 2
    /\ cc # <<>> => Len(to) = 2

\* to followed by cc has one entry for each contact of mine, its email: the
\* entries are the emails of the contacts of mine taken in some order
OneEntryPerContact(to, cc, mine) ==
    LET all == to \o cc
    IN  /\ Len(all) = Cardinality(mine)
        /\ Len(to) = (IF Cardinality(mine) < 2 THEN Cardinality(mine) ELSE 2)
        /\ \E f \in [DOMAIN all -> mine] :
              /\ \A i, j \in DOMAIN all : f[i] = f[j] => i = j
              /\ \A i \in DOMAIN all : all[i] = f[i].email

\* to followed by cc holds the address of each contact of mine exactly once
\* and no address a contact of another customer has
EachAddressOnce(to, cc, c) ==
    LET all == to \o cc
    IN  /\ \A k \in ContactsWithEmail(c) : OccurrencesOf(k.email, all) = 1
        /\ \A i \in DOMAIN all : \E k \in ContactsWithEmail(c) : all[i] = k.email
        /\ \A k \in contacts : k.customer_id # c => OccurrencesOf(k.email, all) = 0

\* slot r's draft-email runs its contacts query in this step
QueriesContacts(r) == At(r, "create_email_draft", "contacts") /\ req'[r].pc = "commit"

\* slot r's commit stores one draft of its meeting with the recipients the
\* request has taken, and answers 200
PersistsRecipients(r) ==
    /\ req'[r].resp.status = 200
    /\ \E d \in drafts' \ drafts :
          /\ drafts' = drafts \cup {d}
          /\ d.id = req'[r].resp.body.email_draft_id
          /\ d.meeting_id = req[r].id
          /\ d.to_emails = req[r].local.to_emails
          /\ d.cc_emails = req[r].local.cc_emails

\* C12 as stated: the recipients a draft-email takes for a meeting of
\* customer c are at most two to entries, cc entries only after two to
\* entries, the address of each contact of c with an email exactly once and
\* no address of a contact of another customer, none at all when c has no
\* such contact; and the draft is stored with them
C12_RecipientsEachAddressOnce ==
    [][\A r \in Req :
          /\ QueriesContacts(r) =>
                LET c == req[r].local.meeting.customer_id
                    to == req'[r].local.to_emails
                    cc == req'[r].local.cc_emails
                IN  /\ ToThenCc(to, cc)
                    /\ EachAddressOnce(to, cc, c)
                    /\ ContactsWithEmail(c) = {} => (to = <<>> /\ cc = <<>>)
          /\ (Commits(r, "create_email_draft") /\ ById(meetings, req[r].id) # {})
                => PersistsRecipients(r)]_vars

\* C12 by contact: the recipients a draft-email takes for a meeting of
\* customer c are one entry for each contact of c with an email at that
\* moment, in some order, the first two in to and the others in cc, so every
\* entry is the email of a contact of c, none at all when c has no such
\* contact; and the draft is stored with them
C12_RecipientsOnePerContact ==
    [][\A r \in Req :
          /\ QueriesContacts(r) =>
                LET c == req[r].local.meeting.customer_id
                    to == req'[r].local.to_emails
                    cc == req'[r].local.cc_emails
                IN  /\ ToThenCc(to, cc)
                    /\ OneEntryPerContact(to, cc, ContactsWithEmail(c))
                    /\ ContactsWithEmail(c) = {} => (to = <<>> /\ cc = <<>>)
          /\ (Commits(r, "create_email_draft") /\ ById(meetings, req[r].id) # {})
                => PersistsRecipients(r)]_vars

\* a draft of meeting 3 is stored with two to entries and one cc entry,
\* customer 1 having three contacts, while customer 2 has its contact
C12_Witness ==
    /\ Contact5 \in contacts
    /\ Cardinality(ContactsWithEmail(Customer1.id)) = 3
    /\ \E d \in DraftsOf(Meeting3.id) : Len(d.to_emails) = 2 /\ Len(d.cc_emails) = 1

\* a draft of meeting 3 is stored with no recipient, customer 1 having no
\* contact
C12_NoContactWitness ==
    /\ ContactsWithEmail(Customer1.id) = {}
    /\ \E d \in DraftsOf(Meeting3.id) : d.to_emails = <<>> /\ d.cc_emails = <<>>

=============================================================================
